---------------------------- MODULE Spec2Model ----------------------------
(***************************************************************************)
(* Model of backend/server.py of the Contract Clause Checker API:          *)
(* the chunking step and the response parsing of                           *)
(* analyze_contract_with_llm, the upload_contract handler that drives      *)
(* them, and the get_analysis / delete_analysis / get_analyses handlers    *)
(* over the db.contract_analyses collection.                               *)
(*                                                                         *)
(* A text is a sequence of characters; a word is a non-empty sequence of   *)
(* non-whitespace characters.  An oracle response is a sequence of         *)
(* lexemes: the JSON punctuation "[", "]", "{", "}", ",", a blank, a       *)
(* digit "1", an object key with its colon ("a:", "b:", standing for       *)
(* "a": and "b":) and a prose letter "x" that is no JSON token.            *)
(***************************************************************************)
EXTENDS Integers, Sequences, FiniteSets, TLC

VARIABLES
    contract_analyses, \* the documents of db.contract_analyses
    upload,            \* the state of each upload_contract request
    uuid_count,        \* how many uuid4 values have been drawn
    clock,             \* the reading datetime.now gives next
    wrote,             \* history: the documents each request has inserted
    reply,             \* the last response of get_analysis / delete_analysis
    removed,           \* history: the ids a DELETE has answered 200 for
    listing,           \* the last response of get_analyses
    text,              \* chunker harness: contract_text handed to the chunking step
    budget,            \* chunker harness: max_chunk_size in force
    chunks,            \* chunker harness: the chunk list produced
    chunked,           \* chunker harness: TRUE once the chunking step has run
    response,          \* parser harness: the oracle's response for one chunk
    outcome,           \* parser harness: what the parsing block did with it
    parsed             \* parser harness: TRUE once the parsing block has run

serverVars == <<contract_analyses, upload, uuid_count, clock, wrote, reply, removed, listing>>
chunkerVars == <<text, budget, chunks, chunked>>
parserVars == <<response, outcome, parsed>>
vars == <<serverVars, chunkerVars, parserVars>>

(***************************************************************************)
(* Bounds of the model.                                                    *)
(***************************************************************************)
MaxTextLen == 7
MaxBudget == 3
MaxResponseLen == 5
NumUploads == 2

\* the limit of to_list in get_analyses
LIST_LIMIT == 100

\* max_chunk_size of analyze_contract_with_llm (15000 in the source), scaled
\* to the length of the model's texts
MAX_CHUNK_SIZE == 4

\* characters of a contract text; " " and "\n" are whitespace
Whitespace == {" ", "\n"}
Chars == {"a", "b"} \cup Whitespace

\* the sequences over S of length at most n
SeqsUpTo(S, n) == UNION {[1..k -> S] : k \in 0..n}

(***************************************************************************)
(* str.split(): the maximal runs of non-whitespace characters, in order.   *)
(***************************************************************************)
RECURSIVE SplitFrom(_, _, _, _)
SplitFrom(s, i, cur, acc) ==
    IF i > Len(s) THEN (IF cur = <<>> THEN acc ELSE Append(acc, cur))
    ELSE IF s[i] \in Whitespace
         THEN SplitFrom(s, i + 1, <<>>, IF cur = <<>> THEN acc ELSE Append(acc, cur))
         ELSE SplitFrom(s, i + 1, Append(cur, s[i]), acc)

split(s) == SplitFrom(s, 1, <<>>, <<>>)

(***************************************************************************)
(* " ".join(words)                                                         *)
(***************************************************************************)
RECURSIVE join(_)
join(ws) ==
    IF ws = <<>> THEN <<>>
    ELSE IF Len(ws) = 1 THEN ws[1]
    ELSE ws[1] \o <<" ">> \o join(Tail(ws))

(***************************************************************************)
(* str.strip()                                                             *)
(***************************************************************************)
RECURSIVE lstrip(_)
lstrip(s) == IF s # <<>> /\ s[1] \in Whitespace THEN lstrip(Tail(s)) ELSE s

RECURSIVE rstrip(_)
rstrip(s) ==
    IF s # <<>> /\ s[Len(s)] \in Whitespace THEN rstrip(SubSeq(s, 1, Len(s) - 1)) ELSE s

strip(s) == rstrip(lstrip(s))

(***************************************************************************)
(* The chunking loop of analyze_contract_with_llm.  The loop state is      *)
(* [chunks, current_chunk, current_length].                                *)
(***************************************************************************)
\* the test that closes the current chunk before `word`
MustFlush(st, word, max_chunk_size) ==
    st.current_length + Len(word) > max_chunk_size /\ st.current_chunk # <<>>

\* a flush that loses the word that should open the new chunk
FlushDropsWord(st, word) ==
    [chunks |-> Append(st.chunks, join(st.current_chunk)),
     current_chunk |-> <<>>,
     current_length |-> 0]

\* the branch that closes the current chunk and opens one holding `word`
Flush(st, word) ==
    [chunks |-> Append(st.chunks, join(st.current_chunk)),
     current_chunk |-> <<word>>,
     current_length |-> Len(word)]

\* the branch that adds `word` to the current chunk
Extend(st, word) ==
    [chunks |-> st.chunks,
     current_chunk |-> Append(st.current_chunk, word),
     current_length |-> st.current_length + Len(word) + 1]

RECURSIVE ChunkLoop(_, _, _)
ChunkLoop(words, st, max_chunk_size) ==
    IF words = <<>> THEN st
    ELSE LET word == Head(words)
         IN  ChunkLoop(Tail(words),
                       IF MustFlush(st, word, max_chunk_size)
                       THEN Flush(st, word) ELSE Extend(st, word),
                       max_chunk_size)

MakeChunks(contract_text, max_chunk_size) ==
    IF Len(contract_text) > max_chunk_size
    THEN LET st == ChunkLoop(split(contract_text),
                             [chunks |-> <<>>, current_chunk |-> <<>>, current_length |-> 0],
                             max_chunk_size)
         IN  IF st.current_chunk # <<>>
             THEN Append(st.chunks, join(st.current_chunk))
             ELSE st.chunks
    ELSE <<contract_text>>

(***************************************************************************)
(* json.loads over lexeme sequences.  A decoded value is kept as its       *)
(* canonical text (its lexemes with the blanks removed); a decoded array   *)
(* also keeps the list of its elements, each as canonical text.            *)
(***************************************************************************)
KeyLexemes == {"a:", "b:"}
NumberLexemes == {"1"}

NoValue == [ok |-> FALSE, kind |-> "none", items |-> <<>>, canon |-> <<>>, next |-> 0]

RECURSIVE SkipBlanks(_, _)
SkipBlanks(s, i) ==
    IF i <= Len(s) /\ s[i] \in Whitespace THEN SkipBlanks(s, i + 1) ELSE i

\* canonical text of an array or object from the canonical texts of its parts
RECURSIVE CommaJoin(_)
CommaJoin(items) ==
    IF items = <<>> THEN <<>>
    ELSE IF Len(items) = 1 THEN items[1]
    ELSE items[1] \o <<",">> \o CommaJoin(Tail(items))

ArrayValue(items, next) ==
    [ok |-> TRUE, kind |-> "array", items |-> items,
     canon |-> <<"[">> \o CommaJoin(items) \o <<"]">>, next |-> next]

\* an object's members are <<key, canonical text of the value>> pairs; a key
\* that comes again keeps its place and takes the later value, as in a dict
PutMember(members, key, canon) ==
    IF \E k \in 1..Len(members) : members[k][1] = key
    THEN [k \in 1..Len(members) |->
             IF members[k][1] = key THEN <<key, canon>> ELSE members[k]]
    ELSE Append(members, <<key, canon>>)

ObjectValue(members, next) ==
    [ok |-> TRUE, kind |-> "object", items |-> <<>>,
     canon |-> <<"{">>
               \o CommaJoin([k \in 1..Len(members) |-> <<members[k][1]>> \o members[k][2]])
               \o <<"}">>,
     next |-> next]

\* the end of the run of digits that starts at position i
RECURSIVE DigitsEnd(_, _)
DigitsEnd(s, i) ==
    IF i <= Len(s) /\ s[i] \in NumberLexemes THEN DigitsEnd(s, i + 1) ELSE i

RECURSIVE DecodeValue(_, _), DecodeElements(_, _, _), DecodeMembers(_, _, _)
\* the value that starts at position i of s
DecodeValue(s, i) ==
    IF i > Len(s) THEN NoValue
    ELSE IF s[i] \in NumberLexemes
         THEN LET j == DigitsEnd(s, i)
              IN  [ok |-> TRUE, kind |-> "number", items |-> <<>>,
                   canon |-> SubSeq(s, i, j - 1), next |-> j]
    ELSE IF s[i] = "["
         THEN LET j == SkipBlanks(s, i + 1)
              IN  IF j <= Len(s) /\ s[j] = "]"
                  THEN ArrayValue(<<>>, j + 1)
                  ELSE DecodeElements(s, j, <<>>)
    ELSE IF s[i] = "{"
         THEN LET j == SkipBlanks(s, i + 1)
              IN  IF j <= Len(s) /\ s[j] = "}"
                  THEN ObjectValue(<<>>, j + 1)
                  ELSE DecodeMembers(s, j, <<>>)
    ELSE NoValue

\* the rest of an array whose next element starts at position i
DecodeElements(s, i, acc) ==
    LET v == DecodeValue(s, i)
    IN  IF ~v.ok THEN NoValue
        ELSE LET j == SkipBlanks(s, v.next)
             IN  IF j > Len(s) THEN NoValue
                 ELSE IF s[j] = "," THEN DecodeElements(s, SkipBlanks(s, j + 1), Append(acc, v.canon))
                 ELSE IF s[j] = "]" THEN ArrayValue(Append(acc, v.canon), j + 1)
                 ELSE NoValue

\* the rest of an object whose next member (a key, then a value) starts at position i
DecodeMembers(s, i, acc) ==
    IF i > Len(s) \/ s[i] \notin KeyLexemes THEN NoValue
    ELSE LET v == DecodeValue(s, SkipBlanks(s, i + 1))
         IN  IF ~v.ok THEN NoValue
             ELSE LET j == SkipBlanks(s, v.next)
                      members == PutMember(acc, s[i], v.canon)
                  IN  IF j > Len(s) THEN NoValue
                      ELSE IF s[j] = "," THEN DecodeMembers(s, SkipBlanks(s, j + 1), members)
                      ELSE IF s[j] = "}" THEN ObjectValue(members, j + 1)
                      ELSE NoValue

\* json.loads(s): ok = FALSE stands for json.JSONDecodeError
json_loads(s) ==
    LET v == DecodeValue(s, SkipBlanks(s, 1))
    IN  IF v.ok /\ SkipBlanks(s, v.next) > Len(s) THEN v ELSE NoValue

RECURSIVE FirstIndexOf(_, _, _)
FirstIndexOf(s, c, i) ==
    IF i > Len(s) THEN 0 ELSE IF s[i] = c THEN i ELSE FirstIndexOf(s, c, i + 1)

RECURSIVE LastIndexOf(_, _, _)
LastIndexOf(s, c, i) ==
    IF i < 1 THEN 0 ELSE IF s[i] = c THEN i ELSE LastIndexOf(s, c, i - 1)

\* re.search(r'\[.*\]', s, re.DOTALL): from the first "[" to the last "]" after it
re_search(s) ==
    LET a == FirstIndexOf(s, "[", 1)
        b == LastIndexOf(s, "]", Len(s))
    IN  IF a > 0 /\ b > a
        THEN [found |-> TRUE, group |-> SubSeq(s, a, b)]
        ELSE [found |-> FALSE, group |-> <<>>]

(***************************************************************************)
(* The parsing block of the chunk loop.  `extends` is the sequence of      *)
(* lists handed to all_analyses.extend; `raised` says that an exception    *)
(* left the block (and so reaches the handler of the whole function).      *)
(***************************************************************************)
Absorbed(lists) == [raised |-> FALSE, extends |-> lists]

\* the second attempt, made inside the JSONDecodeError handler
ExtractWrapped(resp) ==
    LET json_match == re_search(resp)
    IN  IF json_match.found
        THEN LET chunk_analysis == json_loads(json_match.group)
             IN  IF ~chunk_analysis.ok THEN Absorbed(<<>>)
                 ELSE IF chunk_analysis.kind = "array"
                      THEN Absorbed(<<chunk_analysis.items>>)
                      ELSE Absorbed(<<>>)
        ELSE Absorbed(<<>>)

\* a parsing block that makes the second attempt also when the first decode
\* gave a value that is not a list
ParseResponseRetryNonList(resp) ==
    LET chunk_analysis == json_loads(strip(resp))
    IN  IF chunk_analysis.ok /\ chunk_analysis.kind = "array"
        THEN Absorbed(<<chunk_analysis.items>>)
        ELSE ExtractWrapped(resp)

\* the parsing block as written
ParseResponse(resp) ==
    LET chunk_analysis == json_loads(strip(resp))
    IN  IF chunk_analysis.ok
        THEN IF chunk_analysis.kind = "array"
             THEN Absorbed(<<chunk_analysis.items>>)
             ELSE Absorbed(<<>>)
        ELSE ExtractWrapped(resp)

\* what one chunk adds to all_analyses
RECURSIVE Flatten(_)
Flatten(lists) == IF lists = <<>> THEN <<>> ELSE lists[1] \o Flatten(Tail(lists))


(***************************************************************************)
(* Uploaded files.  A file is its name (stem and extension), the number    *)
(* of bytes read from it, whether pdfplumber can open it, and the text     *)
(* pdfplumber finds on each page.                                          *)
(***************************************************************************)
lower(ext) == IF ext = ".PDF" THEN ".pdf" ELSE ext

EndsWithPdf(filename) == lower(filename[2]) = ".pdf"

\* extract_text_from_pdf on an openable file: the pages that have text, each
\* followed by a newline, stripped
RECURSIVE PagesText(_)
PagesText(pages) ==
    IF pages = <<>> THEN <<>>
    ELSE (IF pages[1] # <<>> THEN pages[1] \o <<"\n">> ELSE <<>>) \o PagesText(Tail(pages))

extract_text_from_pdf(file) == strip(PagesText(file.pages))

NotesTxt == [filename |-> <<"notes", ".txt">>, size |-> 1, opens |-> FALSE,
             pages |-> <<>>]
EmptyPdf == [filename |-> <<"empty", ".pdf">>, size |-> 0, opens |-> FALSE,
             pages |-> <<>>]
CorruptPdf == [filename |-> <<"corrupt", ".pdf">>, size |-> 1, opens |-> FALSE,
               pages |-> <<>>]
ScanPdf == [filename |-> <<"scan", ".pdf">>, size |-> 1, opens |-> TRUE,
            pages |-> << <<>>, <<" ">> >>]
ShortPdf == [filename |-> <<"short", ".PDF">>, size |-> 1, opens |-> TRUE,
             pages |-> << <<"a", "b", " ", "a">> >>]
LongPdf == [filename |-> <<"long", ".pdf">>, size |-> 1, opens |-> TRUE,
            pages |-> << <<"a", "a", "a">>, <<"b", "b">>, <<"a", "b">> >>]

Files == {NotesTxt, EmptyPdf, CorruptPdf, ScanPdf, ShortPdf, LongPdf}

(***************************************************************************)
(* Oracle responses used by the request model.                             *)
(***************************************************************************)
FindingA == <<"{", "a:", "1", "}">>
FindingB == <<"{", "b:", "1", "}">>

RespA == <<"[">> \o FindingA \o <<"]">>
RespWrappedAB == <<"x", " ", "[">> \o FindingA \o <<",", " ">> \o FindingB \o <<"]", " ", "x">>
RespProse == <<"x", " ", "x">>
RespNumber == <<"[", "1", "]">>
RespObject == <<"{", "a:", "[", "1", "]", "}">>

Responses == {RespWrappedAB, RespProse, RespNumber}

(***************************************************************************)
(* Documents and response models.                                          *)
(***************************************************************************)
isoformat(t) == <<"T", t>>
fromisoformat(s) == s[2]

NoDoc == [id |-> 0, filename |-> <<>>, analysis_results |-> <<>>, processed_at |-> <<>>]
NoResult == [id |-> 0, filename |-> <<>>, analysis_results |-> <<>>, processed_at |-> 0]

\* isinstance(element, dict), on the canonical text of a decoded value
IsDict(element) == element # <<>> /\ element[1] = "{"

\* whether ContractAnalysisResult(**doc) validates: analysis_results: List[dict]
Validates(doc) == \A k \in 1..Len(doc.analysis_results) : IsDict(doc.analysis_results[k])

ContractAnalysisResult(doc) ==
    [id |-> doc.id, filename |-> doc.filename, analysis_results |-> doc.analysis_results,
     processed_at |-> fromisoformat(doc.processed_at)]

(***************************************************************************)
(* The upload_contract request.  pc is where the coroutine waits:          *)
(*   "idle"       no request yet                                           *)
(*   "reading"    at await file.read()                                     *)
(*   "awaiting"   at await chat.send_message for chunk i                   *)
(*   "inserting"  at await insert_one, the document not yet written        *)
(*   "inserted"   at await insert_one, the document written                *)
(*   "done"       the response (status) has been sent                      *)
(* calls, responses and failed_at are history: the chunk indexes for which *)
(* send_message was called, the responses received, and the chunk whose    *)
(* call raised.                                                            *)
(***************************************************************************)
Uploads == 1..NumUploads

NoFile == [filename |-> <<>>, size |-> 0, opens |-> FALSE, pages |-> <<>>]

Idle == [pc |-> "idle", file |-> NoFile, contract_text |-> <<>>, chunks |-> <<>>,
         i |-> 0, all_analyses |-> <<>>, analysis_data |-> NoDoc,
         status |-> 0, result |-> NoResult,
         calls |-> <<>>, responses |-> <<>>, failed_at |-> 0]

\* raise HTTPException(status_code)
Raise(r, code) == [r EXCEPT !.pc = "done", !.status = code]

\* the filename test made before the body is read
AcceptsName(file) == EndsWithPdf(file.filename)

\* the body tests without the test for an empty extracted text
RejectsBodyNoTextTest(file) ==
    IF file.size = 0 THEN 400
    ELSE IF ~file.opens THEN 400
    ELSE 0

\* the tests made between file.read() and the analysis; the status they raise, or 0
RejectsBody(file) ==
    IF file.size = 0 THEN 400
    ELSE IF ~file.opens THEN 400
    ELSE IF strip(extract_text_from_pdf(file)) = <<>> THEN 400
    ELSE 0

\* an extend that skips the findings already gathered
extend_unique(all_analyses, items) ==
    all_analyses \o SelectSeq(items, LAMBDA e : \A k \in 1..Len(all_analyses) : all_analyses[k] # e)

\* all_analyses.extend(chunk_analysis)
extend(all_analyses, items) == all_analyses \o items

\* the loop moves past chunk r.i: the call for the next chunk, or, after the
\* last chunk, the document handed to insert_one
Continue(r, uuid, now) ==
    IF r.i < Len(r.chunks)
    THEN [r EXCEPT !.pc = "awaiting", !.i = r.i + 1, !.calls = Append(r.calls, r.i + 1)]
    ELSE [r EXCEPT !.pc = "inserting",
                   !.analysis_data = [id |-> uuid,
                                      filename |-> r.file.filename,
                                      analysis_results |-> r.all_analyses,
                                      processed_at |-> isoformat(now)]]

\* a response handled with one all_analyses list shared by the requests in flight
OnResponseShared(up, u, resp, uuid, now) ==
    LET o == ParseResponse(resp)
        got == [up[u] EXCEPT !.responses = Append(up[u].responses, resp)]
    IN  IF o.raised THEN [up EXCEPT ![u] = Raise(got, 500)]
        ELSE [v \in DOMAIN up |->
                 IF v = u
                 THEN Continue([got EXCEPT !.all_analyses =
                                   extend(got.all_analyses, Flatten(o.extends))], uuid, now)
                 ELSE IF up[v].pc = "awaiting"
                      THEN [up[v] EXCEPT !.all_analyses =
                               extend(up[v].all_analyses, Flatten(o.extends))]
                      ELSE up[v]]

\* chat.send_message returned resp for the chunk request u waits on
OnResponse(up, u, resp, uuid, now) ==
    LET o == ParseResponse(resp)
        got == [up[u] EXCEPT !.responses = Append(up[u].responses, resp)]
    IN  IF o.raised THEN [up EXCEPT ![u] = Raise(got, 500)]
        ELSE [up EXCEPT ![u] =
                 Continue([got EXCEPT !.all_analyses =
                              extend(got.all_analyses, Flatten(o.extends))], uuid, now)]

\* a failure answered by sending the same chunk again
OnFailureRetries(r) ==
    [r EXCEPT !.failed_at = r.i, !.calls = Append(r.calls, r.i)]

\* chat.send_message raised for the chunk the request waits on
OnFailure(r) == Raise([r EXCEPT !.failed_at = r.i], 500)

\* the request arrives: the filename test, then await file.read()
UploadBegin(u, files) ==
    /\ upload[u].pc = "idle"
    /\ \E file \in files :
          upload' = [upload EXCEPT ![u] =
                        IF AcceptsName(file)
                        THEN [Idle EXCEPT !.pc = "reading", !.file = file]
                        ELSE Raise([Idle EXCEPT !.file = file], 400)]
    /\ UNCHANGED <<contract_analyses, uuid_count, clock, wrote, reply, removed>>
    /\ UNCHANGED <<listing, chunkerVars, parserVars>>

\* file.read() returns: the body tests, the text extraction, the chunking and
\* the call for the first chunk
UploadRead(u) ==
    /\ upload[u].pc = "reading"
    /\ LET r == upload[u]
           code == RejectsBody(r.file)
           contract_text == extract_text_from_pdf(r.file)
           started == [r EXCEPT !.contract_text = contract_text,
                                !.chunks = MakeChunks(contract_text, MAX_CHUNK_SIZE),
                                !.all_analyses = <<>>]
           next == Continue(started, uuid_count + 1, clock)
       IN  IF code # 0
           THEN /\ upload' = [upload EXCEPT ![u] = Raise(r, code)]
                /\ UNCHANGED <<uuid_count, clock>>
           ELSE /\ upload' = [upload EXCEPT ![u] = next]
                /\ uuid_count' = IF next.pc = "inserting" THEN uuid_count + 1 ELSE uuid_count
                /\ clock' = IF next.pc = "inserting" THEN clock + 1 ELSE clock
    /\ UNCHANGED <<contract_analyses, wrote, reply, removed>>
    /\ UNCHANGED <<listing, chunkerVars, parserVars>>

\* the oracle answers the pending call of request u
OracleRespond(u, responses) ==
    /\ upload[u].pc = "awaiting"
    /\ \E resp \in responses :
          /\ upload' = OnResponse(upload, u, resp, uuid_count + 1, clock)
          /\ uuid_count' = IF upload'[u].pc = "inserting" THEN uuid_count + 1 ELSE uuid_count
          /\ clock' = IF upload'[u].pc = "inserting" THEN clock + 1 ELSE clock
    /\ UNCHANGED <<contract_analyses, wrote, reply, removed>>
    /\ UNCHANGED <<listing, chunkerVars, parserVars>>

\* the pending call of request u fails at the transport level
OracleFail(u) ==
    /\ upload[u].pc = "awaiting"
    /\ upload' = [upload EXCEPT ![u] = OnFailure(upload[u])]
    /\ UNCHANGED <<contract_analyses, uuid_count, clock, wrote, reply, removed>>
    /\ UNCHANGED <<listing, chunkerVars, parserVars>>

\* db.contract_analyses.insert_one(analysis_data) takes effect
InsertOne(u) ==
    /\ upload[u].pc = "inserting"
    /\ contract_analyses' = contract_analyses \cup {upload[u].analysis_data}
    /\ wrote' = [wrote EXCEPT ![u] = wrote[u] \cup {upload[u].analysis_data}]
    /\ upload' = [upload EXCEPT ![u].pc = "inserted"]
    /\ UNCHANGED <<uuid_count, clock, reply, removed>>
    /\ UNCHANGED <<listing, chunkerVars, parserVars>>

\* insert_one returns: the response model is built and the request answered;
\* a validation error is caught by `except Exception` and answered 500
UploadReturn(u) ==
    /\ upload[u].pc = "inserted"
    /\ upload' = [upload EXCEPT ![u] =
                     IF Validates(upload[u].analysis_data)
                     THEN [upload[u] EXCEPT !.pc = "done", !.status = 200,
                                            !.result = ContractAnalysisResult(upload[u].analysis_data)]
                     ELSE Raise(upload[u], 500)]
    /\ UNCHANGED <<contract_analyses, uuid_count, clock, wrote, reply, removed>>
    /\ UNCHANGED <<listing, chunkerVars, parserVars>>

NoReply == [op |-> "none", id |-> 0, status |-> 0, body |-> NoResult]

(***************************************************************************)
(* get_analysis and delete_analysis.  Each handler awaits one collection   *)
(* operation, which the database applies atomically, and then answers      *)
(* from the result of that operation alone, so a handler is one step.      *)
(* QueryIds are the ids a client may ask for: those uuid4 can have given   *)
(* out, and one (NumUploads + 1) that is never given out.                  *)
(***************************************************************************)
QueryIds == 1..(NumUploads + 1)

\* find_one({"id": analysis_id}): the document, or NoDoc for None
find_one(coll, analysis_id) ==
    IF \E doc \in coll : doc.id = analysis_id
    THEN CHOOSE doc \in coll : doc.id = analysis_id
    ELSE NoDoc

\* a delete that empties the collection when the id is found
delete_one_drops_all(coll, analysis_id) ==
    IF \E doc \in coll : doc.id = analysis_id
    THEN [coll |-> {}, deleted_count |-> 1]
    ELSE [coll |-> coll, deleted_count |-> 0]

\* delete_one({"id": analysis_id}): the collection left and result.deleted_count
delete_one(coll, analysis_id) ==
    IF \E doc \in coll : doc.id = analysis_id
    THEN [coll |-> coll \ {CHOOSE doc \in coll : doc.id = analysis_id}, deleted_count |-> 1]
    ELSE [coll |-> coll, deleted_count |-> 0]

GetAnalysis ==
    /\ \E analysis_id \in QueryIds :
          LET analysis == find_one(contract_analyses, analysis_id)
          IN  reply' = IF analysis = NoDoc
                       THEN [op |-> "GET", id |-> analysis_id, status |-> 404, body |-> NoResult]
                       ELSE IF Validates(analysis)
                       THEN [op |-> "GET", id |-> analysis_id, status |-> 200,
                             body |-> ContractAnalysisResult(analysis)]
                       ELSE [op |-> "GET", id |-> analysis_id, status |-> 500, body |-> NoResult]
    /\ UNCHANGED <<contract_analyses, upload, uuid_count, clock, wrote, removed>>
    /\ UNCHANGED <<listing, chunkerVars, parserVars>>

DeleteAnalysis ==
    /\ \E analysis_id \in QueryIds :
          LET result == delete_one(contract_analyses, analysis_id)
          IN  /\ contract_analyses' = result.coll
              /\ reply' = [op |-> "DELETE", id |-> analysis_id,
                           status |-> IF result.deleted_count = 0 THEN 404 ELSE 200,
                           body |-> NoResult]
              /\ removed' = IF result.deleted_count = 0 THEN removed
                            ELSE removed \cup {analysis_id}
    /\ UNCHANGED <<upload, uuid_count, clock, wrote>>
    /\ UNCHANGED <<listing, chunkerVars, parserVars>>

(***************************************************************************)
(* get_analyses: find().sort("processed_at", -1).to_list(LIST_LIMIT), each *)
(* document turned into the response model; any exception is answered 500. *)
(***************************************************************************)
NoListing == [status |-> 0, body |-> <<>>]

\* the documents of coll, newest processed_at first
RECURSIVE SortNewestFirst(_)
SortNewestFirst(coll) ==
    IF coll = {} THEN <<>>
    ELSE LET newest == CHOOSE doc \in coll :
                           \A other \in coll :
                               fromisoformat(other.processed_at) <= fromisoformat(doc.processed_at)
         IN  <<newest>> \o SortNewestFirst(coll \ {newest})

\* cursor.to_list(n)
to_list(docs, n) == SubSeq(docs, 1, IF Len(docs) < n THEN Len(docs) ELSE n)

GetAnalyses ==
    /\ LET analyses == to_list(SortNewestFirst(contract_analyses), LIST_LIMIT)
       IN  listing' = IF \A k \in 1..Len(analyses) : Validates(analyses[k])
                      THEN [status |-> 200,
                            body |-> [k \in 1..Len(analyses) |-> ContractAnalysisResult(analyses[k])]]
                      ELSE [status |-> 500, body |-> <<>>]
    /\ UNCHANGED <<contract_analyses, upload, uuid_count, clock, wrote, reply, removed>>
    /\ UNCHANGED <<chunkerVars, parserVars>>

ChunkerIdle ==
    /\ text = <<>>
    /\ budget = 1
    /\ chunks = <<>>
    /\ chunked = FALSE

ParserIdle ==
    /\ response = <<>>
    /\ outcome = [raised |-> FALSE, extends |-> <<>>]
    /\ parsed = FALSE

ServerInit ==
    /\ contract_analyses = {}
    /\ upload = [u \in Uploads |-> Idle]
    /\ uuid_count = 0
    /\ clock = 1
    /\ wrote = [u \in Uploads |-> {}]
    /\ reply = NoReply
    /\ removed = {}
    /\ listing = NoListing

Init == ServerInit /\ ChunkerIdle /\ ParserIdle

Next ==
    \E u \in Uploads :
        \/ UploadBegin(u, Files)
        \/ UploadRead(u)
        \/ OracleRespond(u, Responses)
        \/ OracleFail(u)
        \/ InsertOne(u)
        \/ UploadReturn(u)

Spec == Init /\ [][Next]_vars

(***************************************************************************)
(* The store specification: uploads of one-chunk documents next to         *)
(* get_analysis and delete_analysis requests.                              *)
(***************************************************************************)
StoreFiles == {NotesTxt, ShortPdf}
StoreResponses == {RespA, RespNumber}

StoreNext ==
    \/ \E u \in Uploads :
          \/ UploadBegin(u, StoreFiles)
          \/ UploadRead(u)
          \/ OracleRespond(u, StoreResponses)
          \/ OracleFail(u)
          \/ InsertOne(u)
          \/ UploadReturn(u)
    \/ GetAnalysis
    \/ DeleteAnalysis

SpecStore == Init /\ [][StoreNext]_vars

(***************************************************************************)
(* The store specification with get_analyses requests as well.             *)
(***************************************************************************)
ListNext ==
    \/ StoreNext
    \/ GetAnalyses

SpecList == Init /\ [][ListNext]_vars

(***************************************************************************)
(* Chunker harness: every text up to MaxTextLen characters and every       *)
(* budget up to MaxBudget is handed to the chunking step.                  *)
(***************************************************************************)
ChunkInit ==
    /\ text \in SeqsUpTo(Chars, MaxTextLen)
    /\ budget \in 1..MaxBudget
    /\ chunks = <<>>
    /\ chunked = FALSE
    /\ ParserIdle
    /\ ServerInit

RunChunker ==
    /\ ~chunked
    /\ chunks' = MakeChunks(text, budget)
    /\ chunked' = TRUE
    /\ UNCHANGED <<text, budget>>
    /\ UNCHANGED <<serverVars, parserVars>>

ChunkNext == RunChunker

SpecChunk == ChunkInit /\ [][ChunkNext]_vars

(***************************************************************************)
(* Parser harness: every response of up to MaxResponseLen lexemes, and     *)
(* every response of the request model, is handed to the parsing block.    *)
(***************************************************************************)
ResponseLexemes == {"[", "]", "{", "}", "a:", ",", " ", "1", "x"}

ParseInit ==
    /\ response \in SeqsUpTo(ResponseLexemes, MaxResponseLen)
                       \cup {RespA, RespWrappedAB, RespProse, RespNumber, RespObject}
    /\ outcome = [raised |-> FALSE, extends |-> <<>>]
    /\ parsed = FALSE
    /\ ChunkerIdle
    /\ ServerInit

RunParser ==
    /\ ~parsed
    /\ outcome' = ParseResponse(response)
    /\ parsed' = TRUE
    /\ UNCHANGED response
    /\ UNCHANGED <<serverVars, chunkerVars>>

ParseNext == RunParser

SpecParse == ParseInit /\ [][ParseNext]_vars

(***************************************************************************)
(* Claims about the chunking step and the parsing block.                   *)
(***************************************************************************)
\* all words of all chunks, in chunk order
RECURSIVE WordsOf(_)
WordsOf(cs) == IF cs = <<>> THEN <<>> ELSE split(cs[1]) \o WordsOf(Tail(cs))

\* C1: every chunk of a non-empty trimmed text is within the budget or is a
\* single word longer than the budget, the first chunk and later ones alike.
ChunkWithinBudget ==
    (chunked /\ text # <<>> /\ strip(text) = text) =>
        \A k \in 1..Len(chunks) :
            \/ Len(chunks[k]) <= budget
            \/ (Len(split(chunks[k])) = 1 /\ Len(split(chunks[k])[1]) > budget)

\* C2: the words of the chunks, in chunk order, are the words of the input in
\* order; a text within the budget comes back as one chunk equal to it.
ChunksKeepWords ==
    chunked =>
        /\ WordsOf(chunks) = split(text)
        /\ (Len(text) <= budget => chunks = <<text>>)

\* a text over the budget cut into three or more chunks, one of several words
ChunksKeepWordsWitness ==
    /\ chunked
    /\ Len(text) > budget
    /\ Len(chunks) >= 3
    /\ \E k \in 1..Len(chunks) : Len(split(chunks[k])) >= 2

\* the list the claim says is added, given the two decodes
ClaimedContribution(whole, inner) ==
    IF whole.ok
    THEN (IF whole.kind = "array" THEN whole.items ELSE <<>>)
    ELSE (IF inner.ok /\ inner.kind = "array" THEN inner.items ELSE <<>>)

\* the text from the first "[" to the last "]" of resp, decoded
BracketedDecode(resp, a, b) ==
    IF a > 0 /\ b > a THEN json_loads(SubSeq(resp, a, b)) ELSE NoValue

\* C5: parsing a response never raises; it adds the whole-string array when
\* the trimmed response decodes to an array, else (whole-string decode failed)
\* the array decoded from the first "[" to the last "]", else nothing; and it
\* adds at most once.
ParseContribution ==
    parsed =>
        /\ ~outcome.raised
        /\ Len(outcome.extends) <= 1
        /\ Flatten(outcome.extends) =
               ClaimedContribution(
                   json_loads(strip(response)),
                   BracketedDecode(response, FirstIndexOf(response, "[", 1),
                                   LastIndexOf(response, "]", Len(response))))

\* an array wrapped in prose, recovered by the second attempt
ParseContributionWitness ==
    /\ parsed
    /\ response = RespWrappedAB
    /\ ~json_loads(strip(response)).ok
    /\ outcome.extends = << <<FindingA, FindingB>> >>

(***************************************************************************)
(* Claims about the upload request.                                        *)
(***************************************************************************)
\* what the parsing block adds for each response of the request model
ParserReturns ==
    [resp \in Responses \cup StoreResponses |-> Flatten(ParseResponse(resp).extends)]

ParserReturn(resp) == ParserReturns[resp]

\* the lists the parser returned for the responses, concatenated in order
RECURSIVE ConcatParsed(_)
ConcatParsed(resps) ==
    IF resps = <<>> THEN <<>> ELSE ParserReturn(resps[1]) \o ConcatParsed(Tail(resps))

\* the analysis of a request has returned its finding list
Analysed(r) == r.analysis_data # NoDoc

\* the call history is 1, 2, ..., in step with the responses received
CallsInChunkOrder(r) ==
    /\ r.calls = [k \in 1..Len(r.calls) |-> k]
    /\ Len(r.calls) <= Len(r.chunks)
    /\ Len(r.calls) = Len(r.responses) + (IF r.pc = "awaiting" THEN 1 ELSE 0)
    /\ (r.pc \in {"inserting", "inserted", "done"} =>
           Len(r.calls) = Len(r.chunks) /\ Len(r.calls) >= 1)

\* requests that passed validation and met no transport failure
Undisturbed(r) == r.pc \notin {"idle", "reading"} /\ r.status # 400 /\ r.failed_at = 0

\* the call-order part of C3 alone
OracleCallsSequential ==
    \A u \in Uploads : Undisturbed(upload[u]) => CallsInChunkOrder(upload[u])

\* C3: a request with no transport failure calls the oracle once per chunk, in
\* chunk order, each call after the previous response, and ends with 200.
OneCallPerChunkThen200 ==
    \A u \in Uploads :
        Undisturbed(upload[u]) =>
            /\ CallsInChunkOrder(upload[u])
            /\ (upload[u].pc = "done" => upload[u].status = 200)

\* C4: the finding list of a finished analysis is the concatenation, in chunk
\* order, of what the parser returned for each chunk's response.
FindingsAreConcatenation ==
    \A u \in Uploads :
        Analysed(upload[u]) =>
            /\ Len(upload[u].responses) = Len(upload[u].chunks)
            /\ upload[u].analysis_data.analysis_results = ConcatParsed(upload[u].responses)

\* the same findings returned for two chunks, kept twice
FindingsAreConcatenationWitness ==
    \E u \in Uploads :
        /\ Analysed(upload[u])
        /\ upload[u].status = 200
        /\ upload[u].result.analysis_results = <<FindingA, FindingB, FindingA, FindingB>>

\* C6: a transport failure at chunk k ends the request with 500 at once: the
\* calls made are exactly 1..k, and the request has written nothing.
TransportFailureAborts ==
    \A u \in Uploads :
        upload[u].failed_at # 0 =>
            /\ upload[u].pc = "done"
            /\ upload[u].status = 500
            /\ upload[u].calls = [k \in 1..upload[u].failed_at |-> k]
            /\ upload[u].analysis_data = NoDoc
            /\ wrote[u] = {}
            /\ \A doc \in contract_analyses : \E v \in Uploads \ {u} : doc \in wrote[v]

\* one request failed on its first chunk with a second chunk never sent, the
\* other failed on its second chunk holding findings of the first
TransportFailureAbortsWitness ==
    \E u, v \in Uploads :
        /\ upload[u].failed_at = 1 /\ Len(upload[u].chunks) = 2
        /\ upload[v].failed_at = 2 /\ upload[v].all_analyses # <<>>

\* the uploads C7 is about
InvalidUpload(file) ==
    \/ ~EndsWithPdf(file.filename)
    \/ file.size = 0
    \/ (file.opens /\ strip(PagesText(file.pages)) = <<>>)

\* C7: an upload with a wrong extension, no bytes or no extractable text is
\* answered 400 with no oracle call and nothing written.
InvalidUploadRejected ==
    \A u \in Uploads :
        (upload[u].pc # "idle" /\ InvalidUpload(upload[u].file)) =>
            /\ upload[u].pc \in {"reading", "done"}
            /\ (upload[u].pc = "done" => upload[u].status = 400)
            /\ upload[u].calls = <<>>
            /\ upload[u].chunks = <<>>
            /\ wrote[u] = {}

InvalidUploadRejectedWitness ==
    \E u, v \in Uploads :
        /\ upload[u].file = ScanPdf /\ upload[u].status = 400
        /\ upload[v].file = EmptyPdf /\ upload[v].status = 400

\* the status a request's own file, own responses and own failure determine
OwnStatus(r) ==
    IF ~EndsWithPdf(r.file.filename) \/ r.file.size = 0 \/ ~r.file.opens
       \/ strip(PagesText(r.file.pages)) = <<>>
    THEN 400
    ELSE IF r.failed_at # 0 THEN 500
    ELSE LET findings == ConcatParsed(r.responses)
         IN  IF \A k \in 1..Len(findings) : IsDict(findings[k]) THEN 200 ELSE 500

\* C9: under every interleaving of two uploads, what a request gathers and
\* persists is what the parser returned for its own responses, in its own
\* chunk order, and its status depends on its own file and oracle calls only.
UploadsIndependent ==
    \A u \in Uploads :
        /\ upload[u].all_analyses = ConcatParsed(upload[u].responses)
        /\ \A doc \in wrote[u] :
              /\ doc.analysis_results = upload[u].all_analyses
              /\ doc.filename = upload[u].file.filename
              /\ doc = upload[u].analysis_data
        /\ (upload[u].pc = "done" => upload[u].status = OwnStatus(upload[u]))
        /\ \A v \in Uploads \ {u} : wrote[u] \cap wrote[v] = {}

\* one request has persisted its findings and returned 200 while the other is
\* between its two oracle calls, holding what its own first response gave
UploadsIndependentWitness ==
    \E u, v \in Uploads :
        /\ u # v
        /\ upload[v].status = 200
        /\ upload[v].result.analysis_results = <<FindingA, FindingB>>
        /\ upload[v].analysis_data \in contract_analyses
        /\ upload[u].pc = "awaiting" /\ upload[u].i = 2
        /\ upload[u].all_analyses = <<<<"1">>>>

\* C10: every element of analysis_results of every stored document is an
\* object.
StoredFindingsAreObjects ==
    \A doc \in contract_analyses :
        \A k \in 1..Len(doc.analysis_results) : IsDict(doc.analysis_results[k])

(***************************************************************************)
(* Claims about the store.                                                 *)
(***************************************************************************)
DocsWithId(coll, id) == {doc \in coll : doc.id = id}

\* the ids of the uploads that have returned 200
Returned200(id) == \E u \in Uploads : upload[u].status = 200 /\ upload[u].result.id = id

\* while no DELETE has answered 200 for it, the record of an upload that
\* returned 200 is stored; an id a DELETE answered 200 for is stored no more
RecordsKept ==
    /\ \A u \in Uploads :
          (upload[u].status = 200 /\ upload[u].result.id \notin removed) =>
              \E doc \in contract_analyses : ContractAnalysisResult(doc) = upload[u].result
    /\ \A doc \in contract_analyses : doc.id \notin removed
    /\ \A id \in QueryIds : Cardinality(DocsWithId(contract_analyses, id)) <= 1

\* what a get_analysis or delete_analysis step must answer and do
AnswersRight ==
    reply' # reply =>
        LET id == reply'.id
            docs == DocsWithId(contract_analyses, id)
        IN  /\ reply'.op \in {"GET", "DELETE"}
            /\ reply'.op = "GET" =>
                   /\ contract_analyses' = contract_analyses
                   /\ (docs = {} => reply'.status = 404)
                   /\ \A u \in Uploads :
                          (upload[u].status = 200 /\ upload[u].result.id = id /\ id \notin removed) =>
                              reply'.status = 200 /\ reply'.body = upload[u].result
            /\ reply'.op = "DELETE" =>
                   IF docs = {}
                   THEN reply'.status = 404 /\ contract_analyses' = contract_analyses
                   ELSE /\ reply'.status = 200
                        /\ contract_analyses' = contract_analyses \ docs
                        /\ id \notin removed
            /\ ((id \in removed \/ id = NumUploads + 1) => reply'.status = 404)

\* C8: the record of an upload that returned 200 is what GET returns until a
\* DELETE of it; the first DELETE answers 200 and removes that record only;
\* later GETs and DELETEs of it, and those of an id never stored, answer 404
\* and change nothing; at most one DELETE of an id answers 200.
GetAndDeleteById == []RecordsKept /\ [][AnswersRight]_vars

\* a second DELETE of a record answered 404 while another record stays stored
GetAndDeleteByIdWitness ==
    /\ reply.op = "DELETE" /\ reply.status = 404 /\ reply.id \in removed
    /\ Returned200(reply.id)
    /\ \E doc \in contract_analyses : Returned200(doc.id)

\* C11: an upload that ended with a status other than 200 has left nothing in
\* the store, and no stored record makes GET /analysis/{id} or GET /analyses
\* answer 500.
OnlyReturnedUploadsStored ==
    /\ \A u \in Uploads :
          (upload[u].pc = "done" /\ upload[u].status # 200) => wrote[u] = {}
    /\ reply.status # 500
    /\ listing.status # 500

=============================================================================
